---- MODULE Spec2Model ----
(***************************************************************************)
(* Model of ngraph_api/ops.py: the operator factories of the nGraph Python *)
(* API and the operator overloads they register on pyngraph.Node.          *)
(*                                                                         *)
(* Python values are tagged pairs: <<"node", id>> is a Node handle (id is  *)
(* the node's position in the engine's graph), <<"lit", k>> is the raw     *)
(* number k, <<"int", v>> / <<"str", 0>> are entries of a shape list, and   *)
(* None is <<"none", 0>>.                                                  *)
(*                                                                         *)
(* The helpers of ngraph_api.utils and the constructors of pyngraph.op are *)
(* called by ops.py and defined elsewhere; they are modelled by what the   *)
(* specification says of them.                                             *)
(***************************************************************************)
EXTENDS Integers, Sequences, FiniteSets

\* ---------------------------------------------------------------- bounds
\* A caller that holds MaxNodes nodes builds no more.
MaxNodes == 2

\* ------------------------------------------------------------ input sets
None == <<"none", 0>>
NoName == "<none>"
UserNames == {"sum1"}
NameArgs == {NoName} \cup UserNames

\* Raw literals are Python numbers: scalars, of the integer type numpy gives them.
Literals == {5}
LitShape(k) == <<>>
LitType(k) == "i64"

DTypes == {"float32", "int32"}
\* parameter is called with its default dtype.
ParameterDTypes == {"float32"}
\* Tensor shapes, of ranks 0 to 3.
Shapes == {<<>>, <<4>>, <<3, 4>>, <<2, 2>>, <<2, 3, 4>>}

\* Shape lists as a caller may write them, entries tagged with their type.
IntEntry(v) == <<"int", v>>
StrEntry == <<"str", 0>>
RawShapes ==
    {[i \in 1..Len(s) |-> IntEntry(s[i])] : s \in Shapes}
        \cup {<<StrEntry>>, <<IntEntry(2), StrEntry>>}

IsNode(v) == v[1] = "node"
Handle(id) == <<"node", id>>

\* ------------------------------------------------------------- factories
UnaryFactories == {"absolute", "sqrt", "exp", "log", "negative", "floor", "ceiling"}
BinaryFactories ==
    {"divide", "multiply", "subtract", "add", "minimum", "maximum", "equal",
     "not_equal", "greater", "greater_eq", "less", "less_eq"}
NameableFactories == {"parameter", "constant", "broadcast", "convert"}

UnaryCtors == {"Abs", "Sqrt", "Exp", "Log", "Negative", "Floor", "Ceiling"}
BinaryCtors ==
    {"Divide", "Multiply", "Subtract", "Add", "Minimum", "Maximum", "Equal",
     "NotEqual", "Greater", "GreaterEq", "Less", "LessEq"}
ComparisonCtors == {"Equal", "NotEqual", "Greater", "GreaterEq", "Less", "LessEq"}

\* ------------------------------------------------------ the native engine
\* A node of the engine's graph.
MkNode(op, args, shape, etype, id, value, axes) ==
    [op |-> op, args |-> args, shape |-> shape, etype |-> etype,
     name |-> <<"gen", op, id>>, value |-> value, axes |-> axes]

\* What a constructor is given besides its operand nodes.
NoAttrs == [shape |-> <<>>, etype |-> "", value |-> 0, axes |-> {}]

RECURSIVE RemoveAxes(_, _, _)
\* s without the positions (counted from 0) in A, from position i on.
RemoveAxes(s, A, i) ==
    IF i > Len(s) THEN <<>>
    ELSE (IF (i - 1) \in A THEN <<>> ELSE <<s[i]>>) \o RemoveAxes(s, A, i + 1)

\* The engine's own checks on a constructor call whose operands are nodes.
EngineAccepts(ctor, args, attrs, ns) ==
    CASE ctor \in BinaryCtors -> ns[args[1][2]].shape = ns[args[2][2]].shape
      [] ctor = "Broadcast" ->
            /\ attrs.axes \subseteq 0..(Len(attrs.shape) - 1)
            /\ RemoveAxes(attrs.shape, attrs.axes, 1) = ns[args[1][2]].shape
      [] OTHER -> TRUE

\* The node a constructor builds.
EngineNode(ctor, args, attrs, ns, id) ==
    LET a1 == ns[args[1][2]]
        ids == [i \in 1..Len(args) |-> args[i][2]]
    IN  CASE ctor = "Parameter" ->
                MkNode(ctor, <<>>, attrs.shape, attrs.etype, id, 0, {})
          [] ctor = "Constant" ->
                MkNode(ctor, <<>>, LitShape(attrs.value), attrs.etype, id, attrs.value, {})
          [] ctor \in UnaryCtors ->
                MkNode(ctor, ids, a1.shape, a1.etype, id, 0, {})
          [] ctor \in ComparisonCtors ->
                MkNode(ctor, ids, a1.shape, "boolean", id, 0, {})
          [] ctor \in BinaryCtors ->
                MkNode(ctor, ids, a1.shape, a1.etype, id, 0, {})
          [] ctor = "Broadcast" ->
                MkNode(ctor, ids, attrs.shape, a1.etype, id, 0, attrs.axes)
          [] ctor = "Convert" ->
                MkNode(ctor, ids, a1.shape, attrs.etype, id, 0, {})

\* ------------------------------------------------- one call's execution
\* The state a call threads through its steps: the engine's nodes, the native
\* constructor calls made so far, the names assigned so far (node id, name),
\* the error raised ("" when none) and the value of the last expression
\* evaluated.
Begin(ns) == [nodes |-> ns, calls |-> <<>>, named |-> <<>>, err |-> "", ret |-> None]

\* A call of a native constructor: it is logged with the operands it was given,
\* refuses operands that are not Node handles, applies the engine's checks and
\* adds the new node to the graph.
NativeCall(ctor, args, attrs, ex) ==
    IF ex.err # "" THEN ex
    ELSE LET log == Append(ex.calls, [ctor |-> ctor, args |-> args, attrs |-> attrs])
             id == Len(ex.nodes) + 1
         IN  IF \E i \in 1..Len(args) : ~IsNode(args[i])
                 THEN [ex EXCEPT !.calls = log, !.err = "TypeError", !.ret = None]
             ELSE IF ~EngineAccepts(ctor, args, attrs, ex.nodes)
                 THEN [ex EXCEPT !.calls = log, !.err = "NativeEngineError", !.ret = None]
             ELSE [ex EXCEPT
                       !.nodes = Append(ex.nodes, EngineNode(ctor, args, attrs, ex.nodes, id)),
                       !.calls = log, !.ret = Handle(id)]

Raise(ex, error) == [ex EXCEPT !.err = error, !.ret = None]

\* ------------------------------------------- ngraph_api.utils (helpers)
NoDType == "<none>"
DTypeArgs == {NoDType} \cup DTypes

\* NumericType -> the engine's element type.
get_element_type(dtype) ==
    CASE dtype = "float32" -> "f32"
      [] dtype = "int32" -> "i32"

\* Fails unless every entry of the list is an integer.
assert_list_of_ints(shape, ex) ==
    IF ex.err # "" THEN ex
    ELSE IF \E i \in 1..Len(shape) : shape[i][1] # "int"
        THEN Raise(ex, "InvalidArgument")
    ELSE ex

\* A Constant node holding the literal; its type is the given one, or else the
\* literal's own.
make_constant_node(value, dtype, ex) ==
    LET etype == IF dtype = NoDType THEN LitType(value[2]) ELSE get_element_type(dtype)
    IN  NativeCall("Constant", <<>>, [NoAttrs EXCEPT !.etype = etype, !.value = value[2]], ex)

\* A Node is passed through as it is; anything else is lifted into a Constant.
as_node(input_value, ex) ==
    IF ex.err # "" THEN ex
    ELSE IF IsNode(input_value) THEN [ex EXCEPT !.ret = input_value]
    ELSE make_constant_node(input_value, NoDType, ex)

\* The optional axis argument of broadcast: absent, or the positions of the
\* target shape that are not broadcast.
AxisNone == [given |-> FALSE, keep |-> {}]
AxisList(S) == [given |-> TRUE, keep |-> S]
AxisArgs == {AxisNone} \cup {AxisList(S) : S \in {{0}, {1, 2}}}

\* The axes to broadcast over: without an axis list the node's dimensions are the
\* trailing ones of the target and the new leading axes are broadcast; with one,
\* every position of the target that the list does not name. Fails when the
\* target has fewer dimensions than the node.
get_broadcast_axes(new_shape, node_shape, axis) ==
    LET n == Len(new_shape)
        m == Len(node_shape)
    IN  IF n < m THEN [err |-> "InvalidArgument", axes |-> {}]
        ELSE IF ~axis.given THEN [err |-> "", axes |-> 0..(n - m - 1)]
        ELSE [err |-> "", axes |-> (0..(n - 1)) \ axis.keep]

\* The name given to a call is put on the node the call returns.
set_node_name(ex, name) ==
    IF ex.err # "" \/ name = NoName THEN ex
    ELSE [ex EXCEPT !.nodes[ex.ret[2]].name = <<"user", name, 0>>,
                    !.named = Append(ex.named, <<ex.ret[2], name>>)]

\* ---------------------------------------------- ops.py: the factory bodies
Ints(shape) == [i \in 1..Len(shape) |-> shape[i][2]]

\* Faulty variant of parameter: the shape is not validated.
parameter_unchecked(shape, dtype, ex) ==
    NativeCall("Parameter", <<>>,
               [NoAttrs EXCEPT !.etype = get_element_type(dtype), !.shape = Ints(shape)], ex)

parameter(shape, dtype, ex) ==
    LET e1 == assert_list_of_ints(shape, ex)
        element_type == get_element_type(dtype)
    IN  NativeCall("Parameter", <<>>,
                   [NoAttrs EXCEPT !.etype = element_type, !.shape = Ints(shape)], e1)

constant(value, dtype, ex) == make_constant_node(value, dtype, ex)

absolute(node, ex) ==
    LET e1 == as_node(node, ex)
    IN  NativeCall("Abs", <<e1.ret>>, NoAttrs, e1)

sqrt(node, ex) == NativeCall("Sqrt", <<node>>, NoAttrs, ex)
exp(node, ex) == NativeCall("Exp", <<node>>, NoAttrs, ex)
log(node, ex) == NativeCall("Log", <<node>>, NoAttrs, ex)
negative(node, ex) == NativeCall("Negative", <<node>>, NoAttrs, ex)
floor(node, ex) == NativeCall("Floor", <<node>>, NoAttrs, ex)
ceiling(node, ex) == NativeCall("Ceiling", <<node>>, NoAttrs, ex)

divide(left_node, right_node, ex) ==
    NativeCall("Divide", <<left_node, right_node>>, NoAttrs, ex)
multiply(left_node, right_node, ex) ==
    NativeCall("Multiply", <<left_node, right_node>>, NoAttrs, ex)
subtract(left_node, right_node, ex) ==
    NativeCall("Subtract", <<left_node, right_node>>, NoAttrs, ex)
add(left_node, right_node, ex) ==
    NativeCall("Add", <<left_node, right_node>>, NoAttrs, ex)
minimum(left_node, right_node, ex) ==
    NativeCall("Minimum", <<left_node, right_node>>, NoAttrs, ex)
maximum(left_node, right_node, ex) ==
    NativeCall("Maximum", <<left_node, right_node>>, NoAttrs, ex)
equal(left_node, right_node, ex) ==
    NativeCall("Equal", <<left_node, right_node>>, NoAttrs, ex)
not_equal(left_node, right_node, ex) ==
    NativeCall("NotEqual", <<left_node, right_node>>, NoAttrs, ex)
greater(left_node, right_node, ex) ==
    NativeCall("Greater", <<left_node, right_node>>, NoAttrs, ex)
greater_eq(left_node, right_node, ex) ==
    NativeCall("GreaterEq", <<left_node, right_node>>, NoAttrs, ex)
less(left_node, right_node, ex) ==
    NativeCall("Less", <<left_node, right_node>>, NoAttrs, ex)
less_eq(left_node, right_node, ex) ==
    NativeCall("LessEq", <<left_node, right_node>>, NoAttrs, ex)

\* Faulty variant of broadcast: the two shapes are handed to get_broadcast_axes the
\* other way round.
broadcast_swapped(node, new_shape, axis, ex) ==
    LET ax == get_broadcast_axes(ex.nodes[node[2]].shape, new_shape, axis)
    IN  IF ex.err # "" THEN ex
        ELSE IF ax.err # "" THEN Raise(ex, ax.err)
        ELSE NativeCall("Broadcast", <<node>>,
                        [NoAttrs EXCEPT !.shape = new_shape, !.axes = ax.axes], ex)

\* Faulty variant of broadcast: the axes are computed from the target shape alone.
broadcast_own_shape(node, new_shape, axis, ex) ==
    LET ax == get_broadcast_axes(new_shape, new_shape, axis)
    IN  IF ex.err # "" THEN ex
        ELSE IF ax.err # "" THEN Raise(ex, ax.err)
        ELSE NativeCall("Broadcast", <<node>>,
                        [NoAttrs EXCEPT !.shape = new_shape, !.axes = ax.axes], ex)

\* Faulty variant of broadcast: Broadcast is given the node's own shape as the target.
broadcast_to_node_shape(node, new_shape, axis, ex) ==
    LET ax == get_broadcast_axes(new_shape, ex.nodes[node[2]].shape, axis)
    IN  IF ex.err # "" THEN ex
        ELSE IF ax.err # "" THEN Raise(ex, ax.err)
        ELSE NativeCall("Broadcast", <<node>>,
                        [NoAttrs EXCEPT !.shape = ex.nodes[node[2]].shape, !.axes = ax.axes], ex)

\* Faulty variant of broadcast: a Broadcast the engine refuses is tried again without
\* broadcast axes.
broadcast_retry(node, new_shape, axis, ex) ==
    LET ax == get_broadcast_axes(new_shape, ex.nodes[node[2]].shape, axis)
        first == NativeCall("Broadcast", <<node>>,
                            [NoAttrs EXCEPT !.shape = new_shape, !.axes = ax.axes], ex)
    IN  IF ex.err # "" THEN ex
        ELSE IF ax.err # "" THEN Raise(ex, ax.err)
        ELSE IF first.err = "" THEN first
        ELSE NativeCall("Broadcast", <<node>>,
                        [NoAttrs EXCEPT !.shape = new_shape, !.axes = {}],
                        [first EXCEPT !.err = ""])

\* get_broadcast_axes(new_shape, node.shape, axis) is evaluated before Broadcast
\* is called with its result.
broadcast(node, new_shape, axis, ex) ==
    LET ax == get_broadcast_axes(new_shape, ex.nodes[node[2]].shape, axis)
    IN  IF ex.err # "" THEN ex
        ELSE IF ax.err # "" THEN Raise(ex, ax.err)
        ELSE NativeCall("Broadcast", <<node>>,
                        [NoAttrs EXCEPT !.shape = new_shape, !.axes = ax.axes], ex)

convert(node, new_type, ex) ==
    LET new_element_type == get_element_type(new_type)
    IN  NativeCall("Convert", <<node>>, [NoAttrs EXCEPT !.etype = new_element_type], ex)

\* The arguments of a factory call, one record for all factories; a factory
\* reads only its own.
NoArgs ==
    [x |-> None, y |-> None, shape |-> <<>>, new_shape |-> <<>>, dtype |-> NoDType,
     axis |-> AxisNone]

\* The function a factory name is bound to, applied to its positional arguments.
Body(f, a, ex) ==
    CASE f = "parameter" -> parameter(a.shape, a.dtype, ex)
      [] f = "constant" -> constant(a.x, a.dtype, ex)
      [] f = "absolute" -> absolute(a.x, ex)
      [] f = "sqrt" -> sqrt(a.x, ex)
      [] f = "exp" -> exp(a.x, ex)
      [] f = "log" -> log(a.x, ex)
      [] f = "negative" -> negative(a.x, ex)
      [] f = "floor" -> floor(a.x, ex)
      [] f = "ceiling" -> ceiling(a.x, ex)
      [] f = "divide" -> divide(a.x, a.y, ex)
      [] f = "multiply" -> multiply(a.x, a.y, ex)
      [] f = "subtract" -> subtract(a.x, a.y, ex)
      [] f = "add" -> add(a.x, a.y, ex)
      [] f = "minimum" -> minimum(a.x, a.y, ex)
      [] f = "maximum" -> maximum(a.x, a.y, ex)
      [] f = "equal" -> equal(a.x, a.y, ex)
      [] f = "not_equal" -> not_equal(a.x, a.y, ex)
      [] f = "greater" -> greater(a.x, a.y, ex)
      [] f = "greater_eq" -> greater_eq(a.x, a.y, ex)
      [] f = "less" -> less(a.x, a.y, ex)
      [] f = "less_eq" -> less_eq(a.x, a.y, ex)
      [] f = "broadcast" -> broadcast(a.x, a.new_shape, a.axis, ex)
      [] f = "convert" -> convert(a.x, a.dtype, ex)

\* ------------------------------------ ngraph_api.utils.decorators
nameable_op(f, a, name, ex) == set_node_name(Body(f, a, ex), name)

unary_op(f, a, name, ex) ==
    LET e1 == as_node(a.x, ex)
    IN  IF e1.err # "" THEN e1
        ELSE set_node_name(Body(f, [a EXCEPT !.x = e1.ret], e1), name)

binary_op(f, a, name, ex) ==
    LET e1 == as_node(a.x, ex)
        e2 == as_node(a.y, e1)
    IN  IF e2.err # "" THEN e2
        ELSE set_node_name(Body(f, [a EXCEPT !.x = e1.ret, !.y = e2.ret], e2), name)

\* Faulty variant of Decorator: sqrt is defined under nameable_op.
Decorator_sqrt_nameable(f) ==
    IF f \in UnaryFactories \ {"sqrt"} THEN "unary_op"
    ELSE IF f \in BinaryFactories THEN "binary_op"
    ELSE "nameable_op"

\* Faulty variant of Decorator: convert is defined without a decorator.
Decorator_convert_plain(f) ==
    IF f \in UnaryFactories THEN "unary_op"
    ELSE IF f \in BinaryFactories THEN "binary_op"
    ELSE IF f = "convert" THEN "none"
    ELSE "nameable_op"

\* The decorator each factory of ops.py is defined under.
Decorator(f) ==
    IF f \in UnaryFactories THEN "unary_op"
    ELSE IF f \in BinaryFactories THEN "binary_op"
    ELSE "nameable_op"

\* A call f(..., name=name) of a factory of the module.
Call(f, a, name, ex) ==
    CASE Decorator(f) = "unary_op" -> unary_op(f, a, name, ex)
      [] Decorator(f) = "binary_op" -> binary_op(f, a, name, ex)
      [] Decorator(f) = "nameable_op" -> nameable_op(f, a, name, ex)
      [] OTHER -> Body(f, a, ex)

\* ------------------------------ ops.py: the overloads registered on Node
ForwardHooks ==
    {"__add__", "__sub__", "__mul__", "__div__", "__truediv__", "__eq__", "__ne__",
     "__lt__", "__le__", "__gt__", "__ge__"}
ReflectedHooks == {"__radd__", "__rsub__", "__rmul__", "__rdiv__", "__rtruediv__"}
Hooks == ForwardHooks \cup ReflectedHooks

\* The reflected hooks are lambdas: Python calls them with the Node first and
\* the other operand second.
__radd__(left, right, ex) == Call("add", [NoArgs EXCEPT !.x = right, !.y = left], NoName, ex)
\* Faulty variant of __rsub__: the lambda keeps the order of its arguments.
rsub_unswapped(left, right, ex) ==
    Call("subtract", [NoArgs EXCEPT !.x = left, !.y = right], NoName, ex)

__rsub__(left, right, ex) == Call("subtract", [NoArgs EXCEPT !.x = right, !.y = left], NoName, ex)
__rmul__(left, right, ex) == Call("multiply", [NoArgs EXCEPT !.x = right, !.y = left], NoName, ex)
__rdiv__(left, right, ex) == Call("divide", [NoArgs EXCEPT !.x = right, !.y = left], NoName, ex)
__rtruediv__(left, right, ex) == Call("divide", [NoArgs EXCEPT !.x = right, !.y = left], NoName, ex)

\* Faulty variant of Registered: __lt__ is bound to greater.
Registered_lt_greater ==
    [h \in Hooks |->
        CASE h = "__add__" -> "add"
          [] h = "__sub__" -> "subtract"
          [] h = "__mul__" -> "multiply"
          [] h = "__div__" -> "divide"
          [] h = "__truediv__" -> "divide"
          [] h = "__radd__" -> "lambda __radd__"
          [] h = "__rsub__" -> "lambda __rsub__"
          [] h = "__rmul__" -> "lambda __rmul__"
          [] h = "__rdiv__" -> "lambda __rdiv__"
          [] h = "__rtruediv__" -> "lambda __rtruediv__"
          [] h = "__eq__" -> "equal"
          [] h = "__ne__" -> "not_equal"
          [] h = "__lt__" -> "greater"
          [] h = "__le__" -> "less_eq"
          [] h = "__gt__" -> "greater"
          [] h = "__ge__" -> "greater_eq"]

\* What the module's last statements bind each hook of Node to: a factory, or
\* one of the lambdas above.
Registered ==
    [h \in Hooks |->
        CASE h = "__add__" -> "add"
          [] h = "__sub__" -> "subtract"
          [] h = "__mul__" -> "multiply"
          [] h = "__div__" -> "divide"
          [] h = "__truediv__" -> "divide"
          [] h = "__radd__" -> "lambda __radd__"
          [] h = "__rsub__" -> "lambda __rsub__"
          [] h = "__rmul__" -> "lambda __rmul__"
          [] h = "__rdiv__" -> "lambda __rdiv__"
          [] h = "__rtruediv__" -> "lambda __rtruediv__"
          [] h = "__eq__" -> "equal"
          [] h = "__ne__" -> "not_equal"
          [] h = "__lt__" -> "less"
          [] h = "__le__" -> "less_eq"
          [] h = "__gt__" -> "greater"
          [] h = "__ge__" -> "greater_eq"]

\* Before the module is loaded Node has none of the hooks.
Unbound == [h \in Hooks |-> "unbound"]

\* Python calling what a hook is bound to with (self, other).
Invoke(callable, self, other, ex) ==
    CASE callable = "lambda __radd__" -> __radd__(self, other, ex)
      [] callable = "lambda __rsub__" -> __rsub__(self, other, ex)
      [] callable = "lambda __rmul__" -> __rmul__(self, other, ex)
      [] callable = "lambda __rdiv__" -> __rdiv__(self, other, ex)
      [] callable = "lambda __rtruediv__" -> __rtruediv__(self, other, ex)
      [] callable \in BinaryFactories ->
            Call(callable, [NoArgs EXCEPT !.x = self, !.y = other], NoName, ex)
      [] OTHER -> Raise(ex, "TypeError")

\* ------------------------------------------------------------------ state
VARIABLES
    loaded,     \* whether ngraph_api.ops has been imported
    dispatch,   \* Node's operator hooks: hook -> what it is bound to
    nodes,      \* the nodes of the engine's graph the caller holds, by id
    last        \* the last call or operator evaluation and how it ended

vars == <<loaded, dispatch, nodes, last>>

NoCall ==
    [kind |-> "none", f |-> "", a |-> NoArgs, name |-> NoName, calls |-> <<>>,
     named |-> <<>>, err |-> "", ret |-> None, pre |-> 0]

Init ==
    /\ loaded = FALSE
    /\ dispatch = Unbound
    /\ nodes = <<>>
    /\ last = NoCall

\* Importing the module: the factories are defined and the hooks are bound.
Load ==
    /\ ~loaded
    /\ loaded' = TRUE
    /\ dispatch' = Registered
    /\ UNCHANGED <<nodes, last>>

Held == {Handle(i) : i \in 1..Len(nodes)}
Lits == {<<"lit", k>> : k \in Literals}
NodeInputs == Held \cup Lits

\* Faulty variant of HooksAfter: subtract binds __rsub__ to itself when it is called.
HooksAfter_rebinding(f, hooks) ==
    IF f \in {"subtract", "__sub__", "__rsub__"} THEN [hooks EXCEPT !["__rsub__"] = "subtract"]
    ELSE hooks

\* No factory, decorator or lambda of the module assigns to an attribute of
\* Node: a call of f leaves the hooks as it found them.
HooksAfter(f, hooks) == hooks

\* The caller is between calls: the module is loaded and the outcome of the
\* call before has been taken.
Idle == loaded /\ last.kind = "none"

\* A call or an evaluation ends: what it built stays in the graph when it
\* returned a node; nothing of it stays when it failed.
Finish(kind, f, a, name, ex) ==
    /\ Len(nodes) < MaxNodes
    /\ nodes' = IF ex.err = "" THEN ex.nodes ELSE nodes
    /\ last' = [kind |-> kind, f |-> f, a |-> a, name |-> name, calls |-> ex.calls,
                named |-> ex.named, err |-> ex.err, ret |-> ex.ret, pre |-> Len(nodes)]
    /\ dispatch' = HooksAfter(f, dispatch)
    /\ UNCHANGED loaded

CallParameter ==
    \E shape \in RawShapes, dtype \in ParameterDTypes, name \in NameArgs :
        LET a == [NoArgs EXCEPT !.shape = shape, !.dtype = dtype]
        IN  Idle /\ Finish("call", "parameter", a, name, Call("parameter", a, name, Begin(nodes)))

CallConstant ==
    \E value \in Lits, dtype \in DTypeArgs, name \in NameArgs :
        LET a == [NoArgs EXCEPT !.x = value, !.dtype = dtype]
        IN  Idle /\ Finish("call", "constant", a, name, Call("constant", a, name, Begin(nodes)))

CallUnary ==
    \E f \in UnaryFactories, x \in NodeInputs, name \in NameArgs :
        LET a == [NoArgs EXCEPT !.x = x]
        IN  Idle /\ Finish("call", f, a, name, Call(f, a, name, Begin(nodes)))

CallBinary ==
    \E f \in BinaryFactories, x \in NodeInputs, y \in NodeInputs, name \in NameArgs :
        LET a == [NoArgs EXCEPT !.x = x, !.y = y]
        IN  Idle /\ Finish("call", f, a, name, Call(f, a, name, Begin(nodes)))

CallBroadcast ==
    \E node \in Held, new_shape \in Shapes, axis \in AxisArgs, name \in NameArgs :
        LET a == [NoArgs EXCEPT !.x = node, !.new_shape = new_shape, !.axis = axis]
        IN  Idle /\ Finish("call", "broadcast", a, name, Call("broadcast", a, name, Begin(nodes)))

CallConvert ==
    \E node \in Held, new_type \in DTypes, name \in NameArgs :
        LET a == [NoArgs EXCEPT !.x = node, !.dtype = new_type]
        IN  Idle /\ Finish("call", "convert", a, name, Call("convert", a, name, Begin(nodes)))

\* node op other: Python calls the forward hook of Node with (node, other).
EvalInfix ==
    \E h \in ForwardHooks, node \in Held, other \in NodeInputs :
        LET a == [NoArgs EXCEPT !.x = node, !.y = other]
        IN  Idle /\ Finish("infix", h, a, NoName, Invoke(dispatch[h], node, other, Begin(nodes)))

\* number op node: the number's own operator gives up and Python calls the
\* reflected hook of Node with (node, number).
EvalReflected ==
    \E h \in ReflectedHooks, node \in Held :
        LET number == <<"lit", 5>>
            a == [NoArgs EXCEPT !.x = number, !.y = node]
        IN  Idle /\ Finish("reflected", h, a, NoName, Invoke(dispatch[h], node, number, Begin(nodes)))

\* The caller takes the outcome, a handle or an error, and goes on.
Return ==
    /\ last.kind # "none"
    /\ last' = NoCall
    /\ UNCHANGED <<loaded, dispatch, nodes>>

Next ==
    \/ Load
    \/ Return
    \/ CallParameter
    \/ CallConstant
    \/ CallUnary
    \/ CallBinary
    \/ CallBroadcast
    \/ CallConvert
    \/ EvalInfix
    \/ EvalReflected

Spec == Init /\ [][Next]_vars

\* ================================================================ claims
OperatorCtors == UnaryCtors \cup BinaryCtors
OperatorCalls(calls) == SelectSeq(calls, LAMBDA c : c.ctor \in OperatorCtors)
ConstantCalls(calls) == SelectSeq(calls, LAMBDA c : c.ctor = "Constant")

\* The operands of the last call, as the caller wrote them.
Operands ==
    IF last.f \in UnaryFactories THEN <<last.a.x>> ELSE <<last.a.x, last.a.y>>

\* The handle operand i must reach the constructor as: the operand itself when
\* it is a Node, else the Constant lifted from it, the (number of literals up
\* to i)-th node the call builds.
Lifted(ops, pre, i) ==
    IF IsNode(ops[i]) THEN ops[i]
    ELSE Handle(pre + Cardinality({j \in 1..i : ~IsNode(ops[j])}))

\* C1: in a call of a unary or binary factory with any mix of Node and literal
\* operands, every operator constructor is called with Node handles only: each
\* literal is first lifted into a Constant of its own, in operand order, a Node
\* operand is passed as the same handle, and the operator's constructor is then
\* called once with these handles.
C1_OperandsAreNodes ==
    (last.kind = "call" /\ last.f \in UnaryFactories \cup BinaryFactories) =>
        LET ops == OperatorCalls(last.calls)
            cs == ConstantCalls(last.calls)
            lits == SelectSeq(Operands, LAMBDA v : ~IsNode(v))
        IN  /\ \A i \in 1..Len(last.calls) :
                    last.calls[i].ctor \in OperatorCtors =>
                        \A j \in 1..Len(last.calls[i].args) : IsNode(last.calls[i].args[j])
            /\ last.calls = cs \o ops
            /\ Len(ops) = 1
            /\ ops[1].args = [i \in 1..Len(Operands) |-> Lifted(Operands, last.pre, i)]
            /\ Len(cs) = Len(lits)
            /\ \A j \in 1..Len(cs) : cs[j].attrs.value = lits[j][2]
            /\ last.err = "" =>
                    \A j \in 1..Len(cs) :
                        /\ nodes[last.pre + j].op = "Constant"
                        /\ nodes[last.pre + j].value = lits[j][2]

\* C1's case: a binary factory called with a literal on the left and a Node on
\* the right has returned.
C1_Witness ==
    /\ last.kind = "call" /\ last.f \in BinaryFactories
    /\ ~IsNode(last.a.x) /\ IsNode(last.a.y) /\ last.err = ""

HasNonInteger(shape) == \E i \in 1..Len(shape) : shape[i][1] # "int"

\* C2: parameter(shape, dtype) fails with InvalidArgument when an entry of
\* shape is not an integer, and then no Parameter is constructed, no node is
\* added and no name is assigned; otherwise it returns a new Parameter node
\* whose shape is the given one.
C2_ParameterValidatesShape ==
    (last.kind = "call" /\ last.f = "parameter") =>
        IF HasNonInteger(last.a.shape)
        THEN /\ last.err = "InvalidArgument"
             /\ last.calls = <<>>
             /\ last.ret = None
             /\ last.named = <<>>
             /\ Len(nodes) = last.pre
        ELSE /\ last.err = ""
             /\ IsNode(last.ret)
             /\ last.ret[2] = last.pre + 1
             /\ Len(nodes) = last.pre + 1
             /\ nodes[last.ret[2]].op = "Parameter"
             /\ nodes[last.ret[2]].shape = [i \in 1..Len(last.a.shape) |-> last.a.shape[i][2]]

\* C2's case: parameter was called with a name and a shape holding a string.
C2_Witness ==
    /\ last.kind = "call" /\ last.f = "parameter"
    /\ HasNonInteger(last.a.shape) /\ Len(last.a.shape) = 2
    /\ last.name # NoName /\ last.err = "InvalidArgument"

BroadcastCalled == last.kind = "call" /\ last.f = "broadcast"
\* The shape of the node broadcast was called on (a call changes no node it
\* was given).
SourceShape == nodes[last.a.x[2]].shape

\* C3: broadcast(node, new_shape) without an axis list, new_shape having at
\* least as many dimensions as the node, calls Broadcast once, with the node,
\* new_shape and the axis set {0, ..., n-m-1}.
C3_BroadcastLeadingAxes ==
    (BroadcastCalled /\ ~last.a.axis.given /\ Len(last.a.new_shape) >= Len(SourceShape)) =>
        /\ Len(last.calls) = 1
        /\ last.calls[1].ctor = "Broadcast"
        /\ last.calls[1].args = <<last.a.x>>
        /\ last.calls[1].attrs.shape = last.a.new_shape
        /\ last.calls[1].attrs.axes = 0..(Len(last.a.new_shape) - Len(SourceShape) - 1)

\* C3's case: a node of shape [3,4] was broadcast to [2,3,4] without an axis
\* list, over the axis set {0}.
C3_Witness ==
    /\ BroadcastCalled /\ ~last.a.axis.given
    /\ SourceShape = <<3, 4>> /\ last.a.new_shape = <<2, 3, 4>>
    /\ last.err = "" /\ last.calls[1].attrs.axes = {0}
    /\ nodes[last.ret[2]].shape = <<2, 3, 4>>

\* C4: broadcast(node, new_shape) with new_shape of fewer dimensions than the
\* node fails with InvalidArgument before Broadcast is called; no node is
\* returned.
C4_BroadcastRankTooSmall ==
    (BroadcastCalled /\ Len(last.a.new_shape) < Len(SourceShape)) =>
        /\ last.err = "InvalidArgument"
        /\ last.calls = <<>>
        /\ last.ret = None
        /\ Len(nodes) = last.pre

\* C4's case: a node of rank 2 was broadcast to a shape of rank 1, with a name.
C4_Witness ==
    /\ BroadcastCalled /\ Len(SourceShape) = 2 /\ Len(last.a.new_shape) = 1
    /\ last.name # NoName /\ last.err = "InvalidArgument"

\* new_shape ends with the dimensions of old_shape.
CanContain(new_shape, old_shape) ==
    /\ Len(new_shape) >= Len(old_shape)
    /\ \A i \in 1..Len(old_shape) :
            new_shape[Len(new_shape) - Len(old_shape) + i] = old_shape[i]

\* C5: broadcast(node, new_shape) without an axis list fails and returns no
\* node whenever new_shape cannot contain the node's shape, a target of the
\* same rank and other dimensions included.
C5_BroadcastMustContain ==
    (BroadcastCalled /\ ~last.a.axis.given /\ ~CanContain(last.a.new_shape, SourceShape)) =>
        /\ last.err # ""
        /\ last.ret = None
        /\ Len(nodes) = last.pre

\* C5's case: a node of shape [3,4] was broadcast to [2,2]; the call reached
\* Broadcast and failed there.
C5_Witness ==
    /\ BroadcastCalled /\ ~last.a.axis.given
    /\ SourceShape = <<3, 4>> /\ last.a.new_shape = <<2, 2>>
    /\ Len(last.calls) = 1 /\ last.err = "NativeEngineError"

\* The factory and the constructor each operator of Python stands for.
HookFactory(h) ==
    CASE h \in {"__add__", "__radd__"} -> "add"
      [] h \in {"__sub__", "__rsub__"} -> "subtract"
      [] h \in {"__mul__", "__rmul__"} -> "multiply"
      [] h \in {"__div__", "__truediv__", "__rdiv__", "__rtruediv__"} -> "divide"
      [] h = "__eq__" -> "equal"
      [] h = "__ne__" -> "not_equal"
      [] h = "__lt__" -> "less"
      [] h = "__le__" -> "less_eq"
      [] h = "__gt__" -> "greater"
      [] h = "__ge__" -> "greater_eq"

FactoryCtor(f) ==
    CASE f = "parameter" -> "Parameter"
      [] f = "constant" -> "Constant"
      [] f = "absolute" -> "Abs"
      [] f = "sqrt" -> "Sqrt"
      [] f = "exp" -> "Exp"
      [] f = "log" -> "Log"
      [] f = "negative" -> "Negative"
      [] f = "floor" -> "Floor"
      [] f = "ceiling" -> "Ceiling"
      [] f = "divide" -> "Divide"
      [] f = "multiply" -> "Multiply"
      [] f = "subtract" -> "Subtract"
      [] f = "add" -> "Add"
      [] f = "minimum" -> "Minimum"
      [] f = "maximum" -> "Maximum"
      [] f = "equal" -> "Equal"
      [] f = "not_equal" -> "NotEqual"
      [] f = "greater" -> "Greater"
      [] f = "greater_eq" -> "GreaterEq"
      [] f = "less" -> "Less"
      [] f = "less_eq" -> "LessEq"
      [] f = "broadcast" -> "Broadcast"
      [] f = "convert" -> "Convert"

\* The constructor the last call or evaluation is to end in.
OwnCtor == IF last.kind = "call" THEN FactoryCtor(last.f) ELSE FactoryCtor(HookFactory(last.f))

\* number op node, or node op number
ReflectedEvaluated == last.kind = "reflected"
ForwardWithLiteral ==
    /\ last.kind = "infix" /\ ~IsNode(last.a.y)
    /\ last.f \in {"__add__", "__sub__", "__mul__", "__div__", "__truediv__"}

\* The evaluation lifted the literal and called the operator's constructor once,
\* with the operands in the order they were written.
CallsInWrittenOrder ==
    /\ Len(last.calls) = 2
    /\ last.calls[1].ctor = "Constant"
    /\ last.calls[2].ctor = OwnCtor
    /\ last.calls[2].args = [i \in 1..2 |-> Lifted(<<last.a.x, last.a.y>>, last.pre, i)]

Before == IF last.err = "" THEN SubSeq(nodes, 1, last.pre) ELSE nodes

ComparisonHooks == {"__eq__", "__ne__", "__lt__", "__le__", "__gt__", "__ge__"}

\* C7: node op other, for each of + - * / == != < <= > >=, ends as the call of
\* the matching factory with the same operands in the same order and no name
\* ends: the same constructor calls, the same error or the same new nodes; when
\* it returns, it returns a new node of the operator's kind, of boolean
\* elements for a comparison.
C7_InfixIsFactoryCall ==
    last.kind = "infix" =>
        LET direct == Call(HookFactory(last.f), last.a, NoName, Begin(Before))
        IN  /\ last.calls = direct.calls
            /\ last.named = direct.named
            /\ last.err = direct.err
            /\ last.ret = direct.ret
            /\ last.err = "" =>
                    /\ nodes = direct.nodes
                    /\ IsNode(last.ret)
                    /\ last.ret[2] > last.pre
                    /\ nodes[last.ret[2]].op = OwnCtor
                    /\ nodes[last.ret[2]].args =
                            <<Lifted(<<last.a.x, last.a.y>>, last.pre, 1)[2],
                              Lifted(<<last.a.x, last.a.y>>, last.pre, 2)[2]>>
                    /\ nodes[last.ret[2]].name[1] = "gen"
                    /\ last.f \in ComparisonHooks => nodes[last.ret[2]].etype = "boolean"

\* C7's case: node < node was evaluated and returned a Less node.
C7_Witness ==
    /\ last.kind = "infix" /\ last.f = "__lt__" /\ IsNode(last.a.y) /\ last.err = ""
    /\ nodes[last.ret[2]].op = "Less" /\ nodes[last.ret[2]].etype = "boolean"

DefaultName(i) == <<"gen", nodes[i].op, i>>

\* C8: a factory call that returns, made with a name, returns a node of that
\* name and assigns no other name; made without one, it assigns no name and the
\* node has the engine's default name. The Constants the call lifted from
\* literals keep their default names and no node the caller held is named.
C8_NameOnReturnedNodeOnly ==
    (last.kind = "call" /\ last.err = "") =>
        /\ IF last.name # NoName
           THEN /\ nodes[last.ret[2]].name = <<"user", last.name, 0>>
                /\ last.named = << <<last.ret[2], last.name>> >>
           ELSE /\ nodes[last.ret[2]].name = DefaultName(last.ret[2])
                /\ last.named = <<>>
        /\ \A i \in (last.pre + 1)..Len(nodes) :
                i # last.ret[2] => (nodes[i].op = "Constant" /\ nodes[i].name = DefaultName(i))
        /\ \A k \in 1..Len(last.named) : last.named[k][1] > last.pre

\* C8's case: a binary factory was called with a literal, a held node and a
\* name, and returned.
C8_Witness ==
    /\ last.kind = "call" /\ last.f \in BinaryFactories /\ last.name = "sum1"
    /\ ~IsNode(last.a.x) /\ IsNode(last.a.y) /\ last.err = ""
    /\ nodes[last.ret[2]].name = <<"user", "sum1", 0>>

OwnCtorCalls == Len(SelectSeq(last.calls, LAMBDA c : c.ctor = OwnCtor))

\* C9: a factory call or operator evaluation either returns the handle of a
\* node it built, or fails; a failure is InvalidArgument raised before the
\* operator's constructor is called, or the engine's own error from the one
\* call of that constructor; the constructor is never called twice, and a
\* failure returns no node, leaves no node behind and assigns no name.
C9_ReturnsOrFailsOnce ==
    last.kind \in {"call", "infix", "reflected"} =>
        /\ OwnCtorCalls <= 1
        /\ \/ /\ last.err = ""
              /\ IsNode(last.ret)
              /\ last.ret[2] > last.pre /\ last.ret[2] = Len(nodes)
              /\ OwnCtorCalls = 1
           \/ /\ last.err = "InvalidArgument"
              /\ OwnCtorCalls = 0
              /\ last.ret = None /\ last.named = <<>> /\ Len(nodes) = last.pre
           \/ /\ last.err = "NativeEngineError"
              /\ OwnCtorCalls = 1
              /\ last.calls[Len(last.calls)].ctor = OwnCtor
              /\ last.ret = None /\ last.named = <<>> /\ Len(nodes) = last.pre

\* C9's case: a binary factory called with a name was refused by the engine.
C9_Witness ==
    /\ last.kind = "call" /\ last.f \in BinaryFactories /\ last.name # NoName
    /\ last.err = "NativeEngineError"

\* C10: the hooks of Node change in one step only, the load of the module,
\* which binds every hook; once the module is loaded it stays loaded and no
\* call or evaluation, returning or failing, changes what a hook is bound to.
C10_HooksWrittenOnce ==
    [][/\ loaded => (loaded' /\ dispatch' = dispatch)
       /\ dispatch' # dispatch => (~loaded /\ \A h \in Hooks : dispatch'[h] # "unbound")]_vars

\* C10's case: after the load, a reflected operator has been evaluated and has
\* failed while the caller holds a node.
C10_Witness ==
    /\ loaded /\ last.kind = "reflected" /\ last.err # "" /\ Len(nodes) >= 1
    /\ dispatch["__rsub__"] = "lambda __rsub__"

====
